---- MODULE Spec2Model ----
(***************************************************************************)
(* Model of the DnsContract name registry (src/lib.rs).                    *)
(*                                                                         *)
(* The state is the contract's storage struct; each #[ink(message)] that   *)
(* takes &mut self is one action, translated statement by statement from   *)
(* its body.  A message is modelled as the method call on the storage      *)
(* struct: whatever the body wrote before an early `return Err(..)` stays  *)
(* written.  Mappings are functions whose DOMAIN is the set of inserted    *)
(* keys.  `call` is the message invoked last, `ret` its return value and   *)
(* `events` the events it emitted; the `ok*`, `last*` and `failed*`        *)
(* variables are history variables that count returned results (okIn: per  *)
(* new_owner, okMoves: per name_id, of the transfers of existing records). *)
(***************************************************************************)
EXTENDS Integers, Sequences, FiniteSets, TLC

\* ---------------------------------------------------------------- bounds
MaxId        == 4      \* create_new_dns is called while domain_name_id < MaxId
MaxTransfers == 2      \* successful transfers of existing records per run

\* ---------------------------------------------------------------- inputs
Accounts    == {"alice", "bob", "carol"}
Deployer    == "alice"
Names       == {"alice.tld", "bob.tld"}
OfferInputs == {<<"NotOffering", 0>>, <<"PublicOffering", 9>>}
ProbeIds    == (0 - 1)..(MaxId - 1)

\* ---------------------------------------------------------------- types
State == {"NotOffering", "PrivateOffering", "PublicOffering"}

DNSError == {"NameAlreadyExists", "NotAOwner", "CallerIsNotOwner",
             "SameOwner", "NameAlreadyClaimed", "DomainAlreadyOwned"}

DomainName(name, offer_state, offer_price, default_address) ==
    [name |-> name, offer_state |-> offer_state,
     offer_price |-> offer_price, default_address |-> default_address]

NewNameClaimed(address) == [event |-> "NewNameClaimed", address |-> address]
SetNewOwner(address)    == [event |-> "SetNewOwner", address |-> address]

\* ---------------------------------------------------------------- state
VARIABLES owner, owner_name_count, domain_name, name_to_owner, claimed,
          no_of_claimed_names, domain_name_id,
          call, ret, events,
          okClaims, okOut, okNames, lastClaimId, failedSince, okIn, okMoves

storage == <<owner, owner_name_count, domain_name, name_to_owner, claimed,
             no_of_claimed_names, domain_name_id>>
history == <<okClaims, okOut, okNames, lastClaimId, failedSince, okIn, okMoves>>
vars    == <<owner, owner_name_count, domain_name, name_to_owner, claimed,
             no_of_claimed_names, domain_name_id,
             call, ret, events,
             okClaims, okOut, okNames, lastClaimId, failedSince, okIn, okMoves>>

\* ---------------------------------------------------------------- Mapping
EmptyMapping == [k \in {} |-> 0]

\* Mapping::get(k).unwrap_or_default()
Get(m, k, default) == IF k \in DOMAIN m THEN m[k] ELSE default

\* Mapping::insert(k, &v)
Insert(m, k, v) == [x \in (DOMAIN m) \cup {k} |-> IF x = k THEN v ELSE m[x]]

\* Mapping::contains(k)
Contains(m, k) == k \in DOMAIN m

\* ---------------------------------------------------------------- queries
\* variant of the scan below: the caller is compared with the claimant
\* recorded in name_to_owner instead of the record's default_address
RECURSIVE scan_by_claimant(_, _)
scan_by_claimant(item, caller) ==
    IF item >= domain_name_id THEN <<>>
    ELSE (IF Contains(domain_name, item)
             /\ Get(name_to_owner, domain_name[item].name, "") = caller
          THEN <<domain_name[item]>> ELSE <<>>)
         \o scan_by_claimant(item + 1, caller)

get_owner_domain_name_by_claimant(caller) == scan_by_claimant(0, caller)

\* lines 193-203: the iterations of `for _item in 0..self.domain_name_id`
\* from _item = item on, as the records they push
RECURSIVE scan(_, _)
scan(item, caller) ==
    IF item >= domain_name_id THEN <<>>
    ELSE (IF Contains(domain_name, item) /\ domain_name[item].default_address = caller
          THEN <<domain_name[item]>> ELSE <<>>)
         \o scan(item + 1, caller)

get_owner_domain_name(caller) == scan(0, caller)

get_owner == owner

get_no_of_name_claimed == no_of_claimed_names

get_owner_name_count(account_id) == Get(owner_name_count, account_id, 0)

is_claimed(id) == Get(claimed, id, FALSE)

\* ---------------------------------------------------------------- new()
Init ==
    /\ owner = Deployer
    /\ owner_name_count = EmptyMapping
    /\ domain_name = EmptyMapping
    /\ name_to_owner = EmptyMapping
    /\ claimed = EmptyMapping
    /\ no_of_claimed_names = 0
    /\ domain_name_id = 1
    /\ call = "new"
    /\ ret = "Ok"
    /\ events = <<>>
    /\ okClaims = [a \in Accounts |-> 0]
    /\ okOut = [a \in Accounts |-> 0]
    /\ okNames = {}
    /\ lastClaimId = 0
    /\ failedSince = 0
    /\ okIn = [a \in Accounts |-> 0]
    /\ okMoves = EmptyMapping

\* ---------------------------------------------------------------- create_new_dns
\* variant: the counter is read but the increment is forgotten
next_domain_name_id_stuck == domain_name_id

\* next_domain_name_id: the value of the counter after the call; the id it
\* returns is the value before.
next_domain_name_id == domain_name_id + 1

\* variant: a name counts as taken only while the claim flag of its record is set
name_exists_while_claimed(name) ==
    \E i \in DOMAIN domain_name :
        domain_name[i].name = name /\ Get(claimed, i, FALSE)

\* line 115: self.name_to_owner.contains(&name)
name_exists(name) == Contains(name_to_owner, name)

\* variant: the contract's owner is recorded instead of the caller
claim_name_to_owner_deployer(name, caller) == Insert(name_to_owner, name, owner)

\* line 120
claim_name_to_owner(name, caller) == Insert(name_to_owner, name, caller)

\* lines 127-134
claim_domain_name(name_id, name, offer_state, offer_price, caller) ==
    Insert(domain_name, name_id, DomainName(name, offer_state, offer_price, caller))

\* variant: the claim flag is not written
claim_claimed_skip(name_id) == claimed

\* line 135
claim_claimed(name_id) == Insert(claimed, name_id, TRUE)

\* variant: the total is taken to be the id just allocated
claim_no_of_claimed_names_as_id == domain_name_id

\* line 136
claim_no_of_claimed_names == no_of_claimed_names + 1

\* variant: the count is set to one instead of incremented
claim_owner_name_count_set_one(caller) == Insert(owner_name_count, caller, 1)

\* lines 138-139
claim_owner_name_count(caller) ==
    Insert(owner_name_count, caller, Get(owner_name_count, caller, 0) + 1)

\* variant: name_to_owner is written before the uniqueness check
create_new_dns_insert_first(caller, name, offer_state, offer_price) ==
    LET name_id     == domain_name_id
        was_claimed == Get(claimed, name_id, FALSE)
        taken       == name_exists(name)
    IN  /\ domain_name_id' = next_domain_name_id
        /\ call' = "create_new_dns"
        /\ owner' = owner
        /\ name_to_owner' = claim_name_to_owner(name, caller)
        /\ IF taken
           THEN /\ ret' = "DomainAlreadyOwned"
                /\ events' = <<>>
                /\ UNCHANGED <<owner_name_count, domain_name,
                               claimed, no_of_claimed_names>>
           ELSE IF was_claimed
           THEN /\ ret' = "NameAlreadyClaimed"
                /\ events' = <<>>
                /\ UNCHANGED <<owner_name_count, domain_name,
                               claimed, no_of_claimed_names>>
           ELSE /\ domain_name' = claim_domain_name(name_id, name,
                                      offer_state, offer_price, caller)
                /\ claimed' = claim_claimed(name_id)
                /\ no_of_claimed_names' = claim_no_of_claimed_names
                /\ owner_name_count' = claim_owner_name_count(caller)
                /\ events' = <<NewNameClaimed(caller)>>
                /\ ret' = "Ok"
        /\ okClaims' = IF ret' = "Ok"
                       THEN [okClaims EXCEPT ![caller] = @ + 1] ELSE okClaims
        /\ okNames' = IF ret' = "Ok" THEN okNames \cup {name} ELSE okNames
        /\ lastClaimId' = IF ret' = "Ok" THEN name_id ELSE lastClaimId
        /\ failedSince' = IF ret' = "Ok" THEN 0 ELSE failedSince + 1
        /\ UNCHANGED <<okOut, okIn, okMoves>>

create_new_dns(caller, name, offer_state, offer_price) ==
    LET name_id     == domain_name_id
        was_claimed == Get(claimed, name_id, FALSE)
    IN  /\ domain_name_id' = next_domain_name_id
        /\ call' = "create_new_dns"
        /\ owner' = owner
        /\ IF name_exists(name)
           THEN /\ ret' = "DomainAlreadyOwned"
                /\ events' = <<>>
                /\ UNCHANGED <<owner_name_count, domain_name, name_to_owner,
                               claimed, no_of_claimed_names>>
           ELSE /\ name_to_owner' = claim_name_to_owner(name, caller)
                /\ IF was_claimed
                   THEN /\ ret' = "NameAlreadyClaimed"
                        /\ events' = <<>>
                        /\ UNCHANGED <<owner_name_count, domain_name,
                                       claimed, no_of_claimed_names>>
                   ELSE /\ domain_name' = claim_domain_name(name_id, name,
                                              offer_state, offer_price, caller)
                        /\ claimed' = claim_claimed(name_id)
                        /\ no_of_claimed_names' = claim_no_of_claimed_names
                        /\ owner_name_count' = claim_owner_name_count(caller)
                        /\ events' = <<NewNameClaimed(caller)>>
                        /\ ret' = "Ok"
        /\ okClaims' = IF ret' = "Ok"
                       THEN [okClaims EXCEPT ![caller] = @ + 1] ELSE okClaims
        /\ okNames' = IF ret' = "Ok" THEN okNames \cup {name} ELSE okNames
        /\ lastClaimId' = IF ret' = "Ok" THEN name_id ELSE lastClaimId
        /\ failedSince' = IF ret' = "Ok" THEN 0 ELSE failedSince + 1
        /\ UNCHANGED <<okOut, okIn, okMoves>>

\* ---------------------------------------------------------------- set_new_owner
\* variant: authorisation against the claimant recorded in name_to_owner
is_not_owner_by_claimant(value, caller) == name_to_owner[value.name] # caller

\* line 156
is_not_owner(value, caller) == value.default_address # caller

\* variant: the target is compared with the claimant recorded in name_to_owner
is_same_owner_by_claimant(value, new_owner) == name_to_owner[value.name] = new_owner

\* line 160
is_same_owner(value, new_owner) == value.default_address = new_owner

\* variant: the incoming holder's count is incremented as well
transfer_owner_name_count_both(caller, new_owner) ==
    LET out == Insert(owner_name_count, caller, Get(owner_name_count, caller, 0) - 1)
    IN  Insert(out, new_owner, Get(out, new_owner, 0) + 1)

\* variant: the count is not taken below zero
transfer_owner_name_count_floor(caller, new_owner) ==
    LET name_count == Get(owner_name_count, caller, 0)
    IN  Insert(owner_name_count, caller,
               IF name_count > 0 THEN name_count - 1 ELSE 0)

\* lines 165-166
transfer_owner_name_count(caller, new_owner) ==
    Insert(owner_name_count, caller, Get(owner_name_count, caller, 0) - 1)

\* variant: the flag is cleared instead of negated
transfer_claimed_clear(name_id) == Insert(claimed, name_id, FALSE)

\* lines 169-170
transfer_claimed(name_id) ==
    Insert(claimed, name_id, ~Get(claimed, name_id, FALSE))

\* variant: the offer is reset when the record changes hands
transfer_domain_name_reset_offer(name_id, value, new_owner) ==
    Insert(domain_name, name_id, DomainName(value.name, "NotOffering", 0, new_owner))

\* lines 172-179
transfer_domain_name(name_id, value, new_owner) ==
    Insert(domain_name, name_id,
           DomainName(value.name, value.offer_state, value.offer_price, new_owner))

\* variant: the bookkeeping of lines 165-170 runs outside the match
set_new_owner_None_bookkeeping(caller, name_id, new_owner) ==
    /\ owner_name_count' = transfer_owner_name_count(caller, new_owner)
    /\ claimed' = transfer_claimed(name_id)
    /\ domain_name' = domain_name

\* the `None => ()` arm
set_new_owner_None(caller, name_id, new_owner) ==
    UNCHANGED <<owner_name_count, claimed, domain_name>>

\* the `Some(value)` arm after both checks passed
set_new_owner_Some(caller, name_id, new_owner) ==
    LET value == domain_name[name_id]
    IN  /\ owner_name_count' = transfer_owner_name_count(caller, new_owner)
        /\ claimed' = transfer_claimed(name_id)
        /\ domain_name' = transfer_domain_name(name_id, value, new_owner)

\* variant: the count of lines 165-166 is decremented before the two checks
set_new_owner_count_first(caller, name_id, new_owner) ==
    /\ call' = "set_new_owner"
    /\ IF Contains(domain_name, name_id)
       THEN IF is_not_owner(domain_name[name_id], caller)
            THEN /\ ret' = "NotAOwner"
                 /\ events' = <<>>
                 /\ owner_name_count' = transfer_owner_name_count(caller, new_owner)
                 /\ UNCHANGED <<claimed, domain_name>>
            ELSE IF is_same_owner(domain_name[name_id], new_owner)
            THEN /\ ret' = "SameOwner"
                 /\ events' = <<>>
                 /\ owner_name_count' = transfer_owner_name_count(caller, new_owner)
                 /\ UNCHANGED <<claimed, domain_name>>
            ELSE /\ ret' = "Ok"
                 /\ events' = <<SetNewOwner(new_owner)>>
                 /\ set_new_owner_Some(caller, name_id, new_owner)
       ELSE /\ ret' = "Ok"
            /\ events' = <<SetNewOwner(new_owner)>>
            /\ set_new_owner_None(caller, name_id, new_owner)
    /\ UNCHANGED <<owner, name_to_owner, no_of_claimed_names, domain_name_id>>
    /\ okOut' = IF ret' = "Ok" /\ Contains(domain_name, name_id)
                THEN [okOut EXCEPT ![caller] = @ + 1] ELSE okOut
    /\ okIn' = IF ret' = "Ok" /\ Contains(domain_name, name_id)
               THEN [okIn EXCEPT ![new_owner] = @ + 1] ELSE okIn
    /\ okMoves' = IF ret' = "Ok" /\ Contains(domain_name, name_id)
                  THEN Insert(okMoves, name_id, Get(okMoves, name_id, 0) + 1)
                  ELSE okMoves
    /\ UNCHANGED <<okClaims, okNames, lastClaimId, failedSince>>

\* variant: the event of line 184 is emitted inside the Some arm only
set_new_owner_emit_in_Some(caller, name_id, new_owner) ==
    /\ call' = "set_new_owner"
    /\ IF Contains(domain_name, name_id)
       THEN IF is_not_owner(domain_name[name_id], caller)
            THEN /\ ret' = "NotAOwner"
                 /\ events' = <<>>
                 /\ UNCHANGED <<owner_name_count, claimed, domain_name>>
            ELSE IF is_same_owner(domain_name[name_id], new_owner)
            THEN /\ ret' = "SameOwner"
                 /\ events' = <<>>
                 /\ UNCHANGED <<owner_name_count, claimed, domain_name>>
            ELSE /\ ret' = "Ok"
                 /\ events' = <<SetNewOwner(new_owner)>>
                 /\ set_new_owner_Some(caller, name_id, new_owner)
       ELSE /\ ret' = "Ok"
            /\ events' = <<>>
            /\ set_new_owner_None(caller, name_id, new_owner)
    /\ UNCHANGED <<owner, name_to_owner, no_of_claimed_names, domain_name_id>>
    /\ okOut' = IF ret' = "Ok" /\ Contains(domain_name, name_id)
                THEN [okOut EXCEPT ![caller] = @ + 1] ELSE okOut
    /\ okIn' = IF ret' = "Ok" /\ Contains(domain_name, name_id)
               THEN [okIn EXCEPT ![new_owner] = @ + 1] ELSE okIn
    /\ okMoves' = IF ret' = "Ok" /\ Contains(domain_name, name_id)
                  THEN Insert(okMoves, name_id, Get(okMoves, name_id, 0) + 1)
                  ELSE okMoves
    /\ UNCHANGED <<okClaims, okNames, lastClaimId, failedSince>>

set_new_owner(caller, name_id, new_owner) ==
    /\ call' = "set_new_owner"
    /\ IF Contains(domain_name, name_id)
       THEN IF is_not_owner(domain_name[name_id], caller)
            THEN /\ ret' = "NotAOwner"
                 /\ events' = <<>>
                 /\ UNCHANGED <<owner_name_count, claimed, domain_name>>
            ELSE IF is_same_owner(domain_name[name_id], new_owner)
            THEN /\ ret' = "SameOwner"
                 /\ events' = <<>>
                 /\ UNCHANGED <<owner_name_count, claimed, domain_name>>
            ELSE /\ ret' = "Ok"
                 /\ events' = <<SetNewOwner(new_owner)>>
                 /\ set_new_owner_Some(caller, name_id, new_owner)
       ELSE /\ ret' = "Ok"
            /\ events' = <<SetNewOwner(new_owner)>>
            /\ set_new_owner_None(caller, name_id, new_owner)
    /\ UNCHANGED <<owner, name_to_owner, no_of_claimed_names, domain_name_id>>
    /\ okOut' = IF ret' = "Ok" /\ Contains(domain_name, name_id)
                THEN [okOut EXCEPT ![caller] = @ + 1] ELSE okOut
    /\ okIn' = IF ret' = "Ok" /\ Contains(domain_name, name_id)
               THEN [okIn EXCEPT ![new_owner] = @ + 1] ELSE okIn
    /\ okMoves' = IF ret' = "Ok" /\ Contains(domain_name, name_id)
                  THEN Insert(okMoves, name_id, Get(okMoves, name_id, 0) + 1)
                  ELSE okMoves
    /\ UNCHANGED <<okClaims, okNames, lastClaimId, failedSince>>

\* ---------------------------------------------------------------- run
RECURSIVE SumOver(_, _)
SumOver(f, S) ==
    IF S = {} THEN 0
    ELSE LET x == CHOOSE y \in S : TRUE IN f[x] + SumOver(f, S \ {x})

TransfersDone == SumOver(okOut, Accounts)

\* a call that would move an existing record
WouldTransfer(caller, name_id, new_owner) ==
    /\ Contains(domain_name, name_id)
    /\ ~is_not_owner(domain_name[name_id], caller)
    /\ ~is_same_owner(domain_name[name_id], new_owner)

Claim ==
    /\ domain_name_id < MaxId
    /\ \E caller \in Accounts, name \in Names, offer \in OfferInputs :
            create_new_dns(caller, name, offer[1], offer[2])

Transfer ==
    \E caller \in Accounts, name_id \in ProbeIds, new_owner \in Accounts :
        /\ WouldTransfer(caller, name_id, new_owner) => TransfersDone < MaxTransfers
        /\ set_new_owner(caller, name_id, new_owner)

Next == Claim \/ Transfer

Spec == Init /\ [][Next]_vars

\* ---------------------------------------------------------------- properties
\* every entry of m other than the one at k is the same in m2
SameExcept(m, m2, k) ==
    /\ (DOMAIN m2) \ {k} = (DOMAIN m) \ {k}
    /\ \A x \in (DOMAIN m) \ {k} : m2[x] = m[x]

\* the step is a call of create_new_dns / of set_new_owner
IsClaim == call' = "create_new_dns"

IsTransfer == call' = "set_new_owner"

\* the step can be a set_new_owner call with this new_owner: an Ok call
\* emits SetNewOwner with its new_owner
TransferTo(new_owner) ==
    /\ IsTransfer
    /\ ret' = "Ok" => events' = <<SetNewOwner(new_owner)>>

Holder(name_id) == domain_name[name_id].default_address

NameUnique ==
    \A i, j \in DOMAIN domain_name :
        domain_name[i].name = domain_name[j].name => i = j

\* C1: no two records carry the same name, and a create_new_dns for a name
\* that was successfully claimed before returns DomainAlreadyOwned whoever
\* calls it and whoever holds the record now.
C1_NameUniqueness ==
    /\ []NameUnique
    /\ [][\A caller \in Accounts, name \in Names, offer \in OfferInputs :
            (create_new_dns(caller, name, offer[1], offer[2]) /\ name \in okNames)
                => ret' = "DomainAlreadyOwned"]_vars

\* C1 witness: every name is claimed, every record has left its claimant, and
\* the last call was a claim refused with DomainAlreadyOwned.
C1_Witness ==
    /\ call = "create_new_dns" /\ ret = "DomainAlreadyOwned"
    /\ okNames = Names
    /\ \A i \in DOMAIN domain_name : Holder(i) # name_to_owner[domain_name[i].name]

\* C2: a create_new_dns that returns DomainAlreadyOwned changes nothing but
\* domain_name_id, which it advances by one.
C2_FailedClaimFrame ==
    [][(IsClaim /\ ret' = "DomainAlreadyOwned")
        => /\ UNCHANGED <<owner, owner_name_count, domain_name, name_to_owner,
                          claimed, no_of_claimed_names>>
           /\ domain_name_id' = domain_name_id + 1]_vars

\* C2 witness: one name claimed, then a refused claim that consumed id 2.
C2_Witness ==
    /\ call = "create_new_dns" /\ ret = "DomainAlreadyOwned"
    /\ no_of_claimed_names = 1 /\ failedSince = 1 /\ domain_name_id = 3
    /\ DOMAIN domain_name = {1}

\* C3: a successful create_new_dns made at domain_name_id = i stores the
\* record at i with the caller as holder, sets claimed[i], records the caller
\* in name_to_owner, adds one to the total and to the caller's count, advances
\* the id, and leaves every other entry alone; the first claim on a new
\* registry gives total 1, count 1 and is_claimed(1).
C3_ClaimEffect ==
    [][\A caller \in Accounts, name \in Names, offer \in OfferInputs :
        \A i \in {domain_name_id} :
          (create_new_dns(caller, name, offer[1], offer[2]) /\ ret' = "Ok")
            => /\ i \in DOMAIN domain_name'
               /\ domain_name'[i] = [name |-> name, offer_state |-> offer[1],
                                     offer_price |-> offer[2],
                                     default_address |-> caller]
               /\ i \notin DOMAIN domain_name
               /\ SameExcept(domain_name, domain_name', i)
               /\ Get(claimed', i, FALSE) = TRUE
               /\ SameExcept(claimed, claimed', i)
               /\ name \in DOMAIN name_to_owner' /\ name_to_owner'[name] = caller
               /\ SameExcept(name_to_owner, name_to_owner', name)
               /\ no_of_claimed_names' = no_of_claimed_names + 1
               /\ Get(owner_name_count', caller, 0)
                    = Get(owner_name_count, caller, 0) + 1
               /\ SameExcept(owner_name_count, owner_name_count', caller)
               /\ domain_name_id' = i + 1
               /\ owner' = owner
               /\ (domain_name_id = 1 =>
                     /\ no_of_claimed_names' = 1
                     /\ Get(owner_name_count', caller, 0) = 1
                     /\ Get(claimed', 1, FALSE) = TRUE)]_vars

\* C3 witness: the second successful claim of one caller.
C3_Witness ==
    /\ call = "create_new_dns" /\ ret = "Ok"
    /\ no_of_claimed_names = 2
    /\ \E a \in Accounts :
          /\ events = <<NewNameClaimed(a)>>
          /\ get_owner_name_count(a) = 2
          /\ Holder(lastClaimId) = a

\* ids of the records a step creates
NewIds == (DOMAIN domain_name') \ (DOMAIN domain_name)

\* C4: domain_name_id starts at 1, every create_new_dns call (successful or
\* not) adds exactly one to it and set_new_owner never changes it; a
\* successful claim creates exactly one record, at an id above every existing
\* record's id, and that id is (failed claims since the previous successful
\* claim) + 1 above the id of the previous successful claim.
C4_MonotonicIds ==
    /\ domain_name_id = 1
    /\ [][/\ IsClaim => domain_name_id' = domain_name_id + 1
          /\ IsTransfer => domain_name_id' = domain_name_id
          /\ (IsClaim /\ ret' = "Ok")
                => /\ NewIds = {domain_name_id}
                   /\ \A j \in DOMAIN domain_name : j < domain_name_id
                   /\ domain_name_id > lastClaimId
                   /\ domain_name_id = lastClaimId + failedSince + 1
          /\ (IsClaim /\ ret' # "Ok") => NewIds = {}
          /\ IsTransfer => NewIds = {}]_vars

\* C4 witness: ids 1 and 3 hold records, id 2 went to a refused claim.
C4_Witness ==
    /\ call = "create_new_dns" /\ ret = "Ok"
    /\ lastClaimId = 3 /\ DOMAIN domain_name = {1, 3}
    /\ domain_name_id = 4

\* C5: no_of_claimed_names is the number of create_new_dns calls that returned
\* Ok; no step lowers it and neither set_new_owner nor a failed claim changes it.
C5_TotalClaimed ==
    /\ [](no_of_claimed_names = SumOver(okClaims, Accounts))
    /\ [][/\ no_of_claimed_names' >= no_of_claimed_names
          /\ IsTransfer => no_of_claimed_names' = no_of_claimed_names
          /\ (IsClaim /\ ret' # "Ok")
                => no_of_claimed_names' = no_of_claimed_names]_vars

\* C5 witness: two claims succeeded, one failed, a record has been moved, and
\* the last call was a transfer.
C5_Witness ==
    /\ call = "set_new_owner" /\ ret = "Ok"
    /\ no_of_claimed_names = 2 /\ domain_name_id = 4
    /\ TransfersDone >= 1

\* C6: for every account x, get_owner_name_count(x) = (successful claims by x)
\* - (successful transfers of an existing record by x); a set_new_owner step
\* that changes the count of x returned Ok and was a call made by x on an id
\* that has a record, so transfers into x, failed calls and calls on absent
\* ids change no count.
C6_CountConsistency ==
    /\ [](\A x \in Accounts : get_owner_name_count(x) = okClaims[x] - okOut[x])
    /\ [][IsTransfer =>
            \A x \in Accounts :
              Get(owner_name_count', x, 0) # Get(owner_name_count, x, 0)
                => /\ ret' = "Ok"
                   /\ \A caller \in Accounts, name_id \in ProbeIds,
                         new_owner \in Accounts :
                         set_new_owner(caller, name_id, new_owner)
                            => (caller = x /\ name_id \in DOMAIN domain_name)]_vars

\* C6 witness: an account that never claimed received a record and passed it on.
C6_Witness ==
    \E x \in Accounts :
        /\ okClaims[x] = 0 /\ okOut[x] = 1
        /\ get_owner_name_count(x) = 0 - 1
        /\ call = "set_new_owner" /\ ret = "Ok"

\* C7: set_new_owner on an id that has a record returns NotAOwner exactly
\* when the caller is not the record's holder, whatever new_owner is.
C7_NotAOwnerIff ==
    [][\A new_owner \in Accounts : TransferTo(new_owner) =>
       \A caller \in Accounts, name_id \in ProbeIds :
        (name_id \in DOMAIN domain_name /\ set_new_owner(caller, name_id, new_owner))
           => (ret' = "NotAOwner" <=> caller # Holder(name_id))]_vars

\* C7 witness: a transfer was refused with NotAOwner on a record that has
\* already changed hands.
C7_Witness ==
    /\ call = "set_new_owner" /\ ret = "NotAOwner"
    /\ TransfersDone >= 1

\* C8 as claimed: set_new_owner on an id that has a record returns SameOwner
\* exactly when new_owner is the record's holder, for every caller.
C8_SameOwnerIff_Claimed ==
    [][\A new_owner \in Accounts : TransferTo(new_owner) =>
       \A caller \in Accounts, name_id \in ProbeIds :
        (name_id \in DOMAIN domain_name /\ set_new_owner(caller, name_id, new_owner))
           => (ret' = "SameOwner" <=> new_owner = Holder(name_id))]_vars

\* C8 amended: set_new_owner on an id that has a record returns SameOwner
\* exactly when the caller is the record's holder and new_owner is that holder
\* too; a caller who is not the holder gets NotAOwner, also for new_owner =
\* holder.
C8_SameOwnerIff ==
    [][\A new_owner \in Accounts : TransferTo(new_owner) =>
       \A caller \in Accounts, name_id \in ProbeIds :
        (name_id \in DOMAIN domain_name /\ set_new_owner(caller, name_id, new_owner))
           => /\ ret' = "SameOwner"
                   <=> (caller = Holder(name_id) /\ new_owner = Holder(name_id))
              /\ (caller # Holder(name_id) /\ new_owner = Holder(name_id))
                   => ret' = "NotAOwner"]_vars

\* C8 witness: a transfer was refused with SameOwner on a record whose holder
\* is no longer its claimant.
C8_Witness ==
    /\ call = "set_new_owner" /\ ret = "SameOwner"
    /\ \E i \in DOMAIN domain_name : Holder(i) # name_to_owner[domain_name[i].name]

\* C9: set_new_owner on an id without a record (0, negative, consumed by a
\* failed claim, not yet allocated) returns Ok for every caller and new_owner
\* and leaves the whole storage as it was: a set_new_owner step either
\* returns Ok with the storage unchanged, or it is no call on such an id.
C9_AbsentIdNoOp ==
    [][IsTransfer =>
        \/ /\ ret' = "Ok"
           /\ UNCHANGED <<owner, owner_name_count, domain_name, name_to_owner,
                          claimed, no_of_claimed_names, domain_name_id>>
        \/ \A name_id \in ProbeIds : name_id \notin DOMAIN domain_name =>
              \A caller \in Accounts, new_owner \in Accounts :
                 ~set_new_owner(caller, name_id, new_owner)]_vars

\* C9 witness: a transfer returned Ok although no record has ever been moved,
\* in a registry that has a record and an id consumed by a failed claim.
C9_Witness ==
    /\ call = "set_new_owner" /\ ret = "Ok"
    /\ TransfersDone = 0
    /\ DOMAIN domain_name = {1} /\ domain_name_id = 3

\* C10: a successful set_new_owner on an existing record, made by its holder,
\* rewrites the holder to new_owner, takes one from the caller's count,
\* negates claimed[name_id] and changes nothing else; new_owner's count is
\* not incremented.
C10_TransferEffect ==
    [][\A new_owner \in Accounts : TransferTo(new_owner) =>
       \A caller \in Accounts, name_id \in ProbeIds :
        (name_id \in DOMAIN domain_name /\ ret' = "Ok"
            /\ set_new_owner(caller, name_id, new_owner))
           => /\ caller = Holder(name_id)
              /\ name_id \in DOMAIN domain_name'
              /\ domain_name'[name_id] =
                   [domain_name[name_id] EXCEPT !.default_address = new_owner]
              /\ SameExcept(domain_name, domain_name', name_id)
              /\ Get(owner_name_count', caller, 0)
                   = Get(owner_name_count, caller, 0) - 1
              /\ \A x \in Accounts \ {caller} :
                   Get(owner_name_count', x, 0) = Get(owner_name_count, x, 0)
              /\ Get(claimed', name_id, FALSE) = ~Get(claimed, name_id, FALSE)
              /\ SameExcept(claimed, claimed', name_id)
              /\ UNCHANGED <<owner, name_to_owner, no_of_claimed_names,
                             domain_name_id>>]_vars

\* C10 witness: a record transferred twice is back with its claimant, whose
\* count is 0, with the claim flag set again.
C10_Witness ==
    /\ call = "set_new_owner" /\ ret = "Ok"
    /\ \E i \in DOMAIN domain_name, b \in Accounts :
          /\ Holder(i) = name_to_owner[domain_name[i].name]
          /\ okOut[Holder(i)] = 1 /\ okOut[b] = 1 /\ b # Holder(i)
          /\ get_owner_name_count(Holder(i)) = 0
          /\ get_owner_name_count(b) = 0 - 1
          /\ is_claimed(i)

\* C11: a set_new_owner call that returns NotAOwner or SameOwner leaves the
\* whole storage as it was before the call.
C11_FailedTransferFrame ==
    [][(IsTransfer /\ ret' \in {"NotAOwner", "SameOwner"})
         => UNCHANGED <<owner, owner_name_count, domain_name, name_to_owner,
                        claimed, no_of_claimed_names, domain_name_id>>]_vars

\* C11 witness: a transfer was refused in a registry with two records, one of
\* them already moved, and an id consumed by a failed claim.
C11_Witness ==
    /\ call = "set_new_owner" /\ ret \in {"NotAOwner", "SameOwner"}
    /\ DOMAIN domain_name = {1, 3}
    /\ TransfersDone = 1

\* ids of the records held by c
HeldBy(c) == {i \in DOMAIN domain_name : Holder(i) = c}

\* the id under which a record is stored (names are unique)
IdOf(rec) == CHOOSE i \in DOMAIN domain_name : domain_name[i] = rec

\* C12: for every account c, get_owner_domain_name run by c returns exactly
\* the records whose holder is c, each once, in ascending id order (the empty
\* sequence when c holds none); after a successful transfer of a record the
\* record is in the new holder's list and not in the caller's.
C12_ListOwnedDomains ==
    /\ [](\A c \in Accounts :
            LET list == get_owner_domain_name(c)
            IN  /\ Len(list) = Cardinality(HeldBy(c))
                /\ \A k \in 1..Len(list) :
                      \E i \in HeldBy(c) : list[k] = domain_name[i]
                /\ \A i \in HeldBy(c) :
                      \E k \in 1..Len(list) : list[k] = domain_name[i]
                /\ \A k1, k2 \in 1..Len(list) :
                      k1 < k2 => IdOf(list[k1]) < IdOf(list[k2])
                /\ HeldBy(c) = {} => list = <<>>)
    /\ [][\A new_owner \in Accounts : TransferTo(new_owner) =>
           \A caller \in Accounts, name_id \in ProbeIds :
            (name_id \in DOMAIN domain_name /\ ret' = "Ok"
                /\ set_new_owner(caller, name_id, new_owner))
              => LET to   == get_owner_domain_name(new_owner)'
                     from == get_owner_domain_name(caller)'
                 IN  /\ \E k \in 1..Len(to) : to[k] = domain_name'[name_id]
                     /\ \A k \in 1..Len(from) :
                           from[k].name # domain_name[name_id].name]_vars

\* C12 witness: an account holds records 1 and 3, one of them received by
\* transfer, and its list has both in that order; the former holder's is empty.
C12_Witness ==
    \E a, b \in Accounts :
        /\ a # b /\ okIn[b] = 1 /\ okOut[a] = 1
        /\ DOMAIN domain_name = {1, 3}
        /\ get_owner_domain_name(b) = <<domain_name[1], domain_name[3]>>
        /\ get_owner_domain_name(a) = <<>>

\* C13: a create_new_dns call that returns Ok emits exactly one
\* NewNameClaimed carrying its caller and a failing one emits nothing; a
\* set_new_owner call that returns Ok, on an existing or on an absent id,
\* emits exactly one SetNewOwner carrying its new_owner and one that returns
\* NotAOwner or SameOwner emits nothing; construction emits nothing.
C13_Notifications ==
    /\ [](call = "new" => events = <<>>)
    /\ [][/\ (IsClaim /\ ret' # "Ok") => events' = <<>>
          /\ (IsClaim /\ ret' = "Ok") =>
               \A caller \in Accounts, name \in Names, offer \in OfferInputs :
                  create_new_dns(caller, name, offer[1], offer[2])
                    => events' = <<[event |-> "NewNameClaimed", address |-> caller]>>
          /\ (IsTransfer /\ ret' # "Ok") => events' = <<>>
          /\ (IsTransfer /\ ret' = "Ok") =>
               \A new_owner \in Accounts :
                  \/ events' = <<[event |-> "SetNewOwner", address |-> new_owner]>>
                  \/ \A caller \in Accounts, name_id \in ProbeIds :
                        ~set_new_owner(caller, name_id, new_owner)]_vars

\* C13 witness: set_new_owner on a registry without any record returned Ok
\* and emitted one SetNewOwner.
C13_Witness ==
    /\ call = "set_new_owner" /\ ret = "Ok"
    /\ domain_name = EmptyMapping /\ domain_name_id = 1
    /\ Len(events) = 1 /\ events[1].event = "SetNewOwner"

\* C14: claimed[domain_name_id] is never true, and no create_new_dns call
\* returns NameAlreadyClaimed.
C14_NameAlreadyClaimedUnreachable ==
    /\ ~Get(claimed, domain_name_id, FALSE)
    /\ ret # "NameAlreadyClaimed"

\* C14 witness: a claim succeeded at id 3 after a refused claim and after the
\* claim flag of record 1 had been toggled by a transfer.
C14_Witness ==
    /\ call = "create_new_dns" /\ ret = "Ok"
    /\ lastClaimId = 3
    /\ 1 \in DOMAIN domain_name /\ ~is_claimed(1)
    /\ Get(okMoves, 1, 0) = 1

\* C15: a record that exists keeps existing with the same name, offer_state
\* and offer_price; its holder changes only in a step that is a successful
\* set_new_owner on its id called by its holder of that moment; records are
\* created only by a successful create_new_dns, at an id that had none.
C15_RecordLifecycle ==
    [][/\ \A id \in DOMAIN domain_name :
            /\ id \in DOMAIN domain_name'
            /\ domain_name'[id].name = domain_name[id].name
            /\ domain_name'[id].offer_state = domain_name[id].offer_state
            /\ domain_name'[id].offer_price = domain_name[id].offer_price
            /\ domain_name'[id].default_address # domain_name[id].default_address
                 => /\ IsTransfer /\ ret' = "Ok"
                    /\ \E c \in Accounts, n \in Accounts :
                          /\ c = domain_name[id].default_address
                          /\ n = domain_name'[id].default_address
                          /\ set_new_owner(c, id, n)
       /\ NewIds # {} => (IsClaim /\ ret' = "Ok")]_vars

\* C15 witness: a record claimed with PublicOffering at price 9 is held by an
\* account other than its claimant after a transfer, offer unchanged.
C15_Witness ==
    /\ call = "set_new_owner" /\ ret = "Ok"
    /\ \E id \in DOMAIN domain_name :
          /\ domain_name[id].offer_state = "PublicOffering"
          /\ domain_name[id].offer_price = 9
          /\ Holder(id) # name_to_owner[domain_name[id].name]
          /\ events = <<SetNewOwner(Holder(id))>>

\* C16: for every id that has a record, is_claimed(id) is true exactly when
\* the number of successful transfers of that id is even: false after the
\* first, true again after the second.
C16_ClaimFlagToggle ==
    \A id \in DOMAIN domain_name :
        /\ is_claimed(id) <=> (Get(okMoves, id, 0) % 2 = 0)
        /\ Get(okMoves, id, 0) = 1 => ~is_claimed(id)
        /\ Get(okMoves, id, 0) = 2 => is_claimed(id)

\* C16 witness: a record has been transferred twice and no name was claimed
\* since, and its flag is set.
C16_Witness ==
    /\ call = "set_new_owner" /\ ret = "Ok"
    /\ no_of_claimed_names = 1
    /\ \E id \in DOMAIN domain_name : Get(okMoves, id, 0) = 2 /\ is_claimed(id)

\* C17: owner_name_count has no floor at zero: a successful transfer of an
\* existing record by a caller whose count is zero or less still takes one
\* from it, leaving it negative; such a state is reached (C17_Witness) by an
\* account that receives a record without ever claiming and passes it on.
C17_NoFloor ==
    [][(IsTransfer /\ ret' = "Ok") =>
         \A c \in Accounts :
            (okOut'[c] = okOut[c] + 1 /\ Get(owner_name_count, c, 0) <= 0)
              => /\ Get(owner_name_count', c, 0) = Get(owner_name_count, c, 0) - 1
                 /\ Get(owner_name_count', c, 0) < 0]_vars

\* C17 witness: an account that never claimed and holds no record has a
\* negative count.
C17_Witness ==
    \E x \in Accounts :
        /\ get_owner_name_count(x) < 0
        /\ okClaims[x] = 0 /\ okIn[x] = 1
        /\ HeldBy(x) = {}

\* C18: every id that has a record satisfies 1 <= id < domain_name_id and
\* has an entry in claimed; is_claimed(id) is false for every id without a
\* record.
C18_RecordIds ==
    /\ \A id \in DOMAIN domain_name :
          /\ 1 <= id /\ id < domain_name_id
          /\ id \in DOMAIN claimed
    /\ \A id \in ProbeIds \cup (DOMAIN claimed) \cup {domain_name_id} :
          id \notin DOMAIN domain_name => ~is_claimed(id)

\* C18 witness: records at ids 1 and 3, id 2 consumed by a refused claim, the
\* flag of record 1 toggled off by a transfer.
C18_Witness ==
    /\ DOMAIN domain_name = {1, 3} /\ DOMAIN claimed = {1, 3}
    /\ domain_name_id = 4
    /\ ~is_claimed(1) /\ is_claimed(3) /\ ~is_claimed(2)
    /\ call = "set_new_owner"

\* C19: for every account x, get_owner_name_count(x) = (records whose holder
\* is x) - (successful transfers into x); so the count never exceeds the
\* length of get_owner_domain_name run by x and is strictly smaller once x
\* has received a transfer.
C19_CountVersusHeld ==
    \A x \in Accounts :
        /\ get_owner_name_count(x) = Cardinality(HeldBy(x)) - okIn[x]
        /\ get_owner_name_count(x) <= Len(get_owner_domain_name(x))
        /\ okIn[x] > 0 => get_owner_name_count(x) < Len(get_owner_domain_name(x))

\* C19 witness: an account holds the record it claimed and one it received;
\* its count is 1 and its list has 2 records.
C19_Witness ==
    \E x \in Accounts :
        /\ okClaims[x] = 1 /\ okIn[x] = 1 /\ okOut[x] = 0
        /\ get_owner_name_count(x) = 1
        /\ Len(get_owner_domain_name(x)) = 2

\* the names carried by the records
RecordNames == {domain_name[i].name : i \in DOMAIN domain_name}

\* name_to_owner has an entry for exactly the names of the records; a
\* successful claim enters its caller, and no step changes or removes an entry
NameOwnerIsClaimant ==
    /\ [](DOMAIN name_to_owner = RecordNames)
    /\ [][/\ (IsClaim /\ ret' = "Ok") =>
               \A caller \in Accounts, name \in Names, offer \in OfferInputs :
                  create_new_dns(caller, name, offer[1], offer[2])
                     => (name \notin DOMAIN name_to_owner
                         /\ name_to_owner' = [n \in (DOMAIN name_to_owner) \cup {name}
                                |-> IF n = name THEN caller ELSE name_to_owner[n]])
          /\ \A n \in DOMAIN name_to_owner :
               n \in DOMAIN name_to_owner' /\ name_to_owner'[n] = name_to_owner[n]
          /\ IsTransfer => name_to_owner' = name_to_owner]_vars

\* C20 as claimed: name_to_owner holds, for exactly the names of the records,
\* the account that made the successful claim, set_new_owner never updates
\* it, and after a successful transfer of a record name_to_owner of its name
\* differs from the record's holder.
C20_NameOwner_Claimed ==
    /\ NameOwnerIsClaimant
    /\ [][(IsTransfer /\ ret' = "Ok") =>
            \A id \in DOMAIN domain_name :
               Get(okMoves', id, 0) # Get(okMoves, id, 0)
                 => name_to_owner'[domain_name'[id].name]
                       # domain_name'[id].default_address]_vars

\* C20 amended: name_to_owner holds, for exactly the names of the records,
\* the account that made the successful claim, and set_new_owner never
\* updates it; so it equals the holder of a record never transferred, differs
\* from the holder after the first transfer of the record, and after a later
\* transfer differs from the holder unless the record went back to its
\* claimant.
C20_NameOwner ==
    /\ NameOwnerIsClaimant
    /\ [](\A id \in DOMAIN domain_name :
            /\ Get(okMoves, id, 0) = 0 => name_to_owner[domain_name[id].name] = Holder(id)
            /\ Get(okMoves, id, 0) = 1 => name_to_owner[domain_name[id].name] # Holder(id))
    /\ [][\A new_owner \in Accounts : (TransferTo(new_owner) /\ ret' = "Ok") =>
           \A caller \in Accounts, name_id \in ProbeIds :
            (name_id \in DOMAIN domain_name
                /\ set_new_owner(caller, name_id, new_owner))
              => (name_to_owner'[domain_name'[name_id].name]
                     # domain_name'[name_id].default_address
                   <=> new_owner # name_to_owner[domain_name[name_id].name])]_vars

\* C20 witness: after one transfer a record is held by an account other than
\* the name_to_owner entry of its name, which is the caller of the claim (not
\* the contract's owner).
C20_Witness ==
    /\ call = "set_new_owner" /\ ret = "Ok"
    /\ \E id \in DOMAIN domain_name :
          /\ Get(okMoves, id, 0) = 1
          /\ name_to_owner[domain_name[id].name] # Holder(id)
          /\ name_to_owner[domain_name[id].name] # owner
          /\ okClaims[name_to_owner[domain_name[id].name]] = 1

====
